---- MODULE Spec2Model ----
(***************************************************************************)
(* Model of metalfm/transactor: the sql.DB transaction executor            *)
(* (driver/sql/trm, impl.InTx) run by several invocations against one      *)
(* shared *sql.DB.                                                         *)
(*                                                                         *)
(* impl.InTx is translated statement by statement; it is split into steps  *)
(* at the calls that perform I/O (BeginTx, the callback's queries,         *)
(* Commit, the deferred Rollback), which is where other invocations and    *)
(* the cancellation of the caller's context can interleave.                *)
(*                                                                         *)
(* *sql.Tx is the handle InTx drives.  Its Commit and Rollback follow the  *)
(* contract of database/sql: a handle is finished by the first Commit or   *)
(* Rollback that reaches the driver; a later Commit or Rollback returns    *)
(* sql.ErrTxDone and sends nothing; when the context given to BeginTx is   *)
(* cancelled the sql package rolls the transaction back and Commit         *)
(* returns an error without committing.                                    *)
(***************************************************************************)
EXTENDS Naturals, Sequences, FiniteSets

\* ---------------------------------------------------------------- bounds
\* number of InTx invocations made on the executor (they may overlap or
\* follow one another)
NumInv == 2
\* the most queries one callback issues through its bound resource
MaxQueries == 1
\* the items of an order
MaxItems == 1

Invs == 1..NumInv
\* db.BeginTx returns a new *sql.Tx on every call; the handle begun by
\* invocation i is named i
Handles == Invs
NoTx == 0
NoInv == 0

\* ---------------------------------------------------------------- errors
\* An error value is the chain errors.Unwrap walks, outermost layer first;
\* each layer carries the text Error() returns at that layer.  A root error
\* (errors.New) has an identity of its own, so two roots with the same text
\* are different errors.  nil is the empty chain.
Nil == <<>>
NewErr(id, msg) == <<[id |-> id, msg |-> msg]>>
Msg(e) == e[1].msg
Unwrap(e) == Tail(e)

\* fmt.Errorf("<label>: %v", err): the text is kept, the cause is dropped
ErrorfV(label, e) == <<[id |-> 0, msg |-> label \o ": " \o Msg(e)]>>
\* fmt.Errorf("<label>: %w", err)
Errorf(label, e) == <<[id |-> 0, msg |-> label \o ": " \o Msg(e)]>> \o e

\* errors.Is(err, target)
RECURSIVE Is(_, _)
Is(e, target) ==
    IF e = Nil THEN FALSE
    ELSE IF e = target THEN TRUE
    ELSE Is(Unwrap(e), target)

\* the errors the environment produces
Canceled == NewErr(1, "context canceled")
ErrTxDone == NewErr(2, "sql: transaction has already been committed or rolled back")
DriverErrs == {NewErr(3, "err")}
\* the errors a callback returns: one of its own, with the text of the
\* driver's error but not the same error, and one that already wraps a cause
CallbackErrs == {NewErr(5, "err"),
                 Errorf("create order", NewErr(7, "order creation error"))}

\* ----------------------------------------------------------------- state
VARIABLES
    pc,       \* pc[i]: where invocation i of InTx is
    ctxDone,  \* ctxDone[i]: the ctx given to invocation i is cancelled
    tx,       \* tx[i]: InTx's local tx (a handle, or NoTx)
    wt,       \* slf.wt: the unbound resource the executor was built with
    repo,     \* repo[i]: the resource handed to the callback of invocation i
    err,      \* err[i]: InTx's local err
    ret,      \* ret[i]: the value InTx returns
    calls,    \* calls[i]: how often invocation i called each operation (user
              \* and order: r.CreateUser and r.CreateOrder in Service.Create)
    res,      \* res[i]: what BeginTx, fn, Commit and the deferred Rollback
              \* returned to invocation i (user and order: what r.CreateUser
              \* and r.CreateOrder returned in Service.Create)
    nq,       \* nq[i]: statements the running callback has had executed (its
              \* own count, gone when it returns)
    txOpen,   \* txOpen[h]: db.BeginTx has handed out handle h
    txDone,   \* txDone[h]: handle h is finished (sql.Tx.done)
    txLog,    \* txLog[h]: the operations that reached the driver on handle h,
              \* in order
    visible,  \* visible[h]: how many statements of transaction h have their
              \* effect visible in the database
    parent    \* parent[i]: the invocation whose callback called invocation i,
              \* NoInv for a call made from outside any callback

vars == <<pc, ctxDone, tx, wt, repo, err, ret, calls, res, nq, txOpen, txDone, txLog,
          visible, parent>>

\* ------------------------------------------------------- the resource (T)
\* the plain connection, as a query target
DB == 0
\* NewRepoUser(q), NewRepoOrder(q), NewAdapter(repoUser, repoOrder)
NewRepoUser(q) == [q |-> q]
NewRepoOrder(q) == [q |-> q]
NewAdapter(repoUser, repoOrder) == [repoUser |-> repoUser, repoOrder |-> repoOrder]
\* no resource
NoRepo == NewAdapter(NewRepoUser(NoTx), NewRepoOrder(NoTx))

\* WithTx: slf is the receiver as the call leaves it, out the value returned

\* variant: the receiver is rebound and returned
RepoUserWithTxInPlace(slf, t) == [slf |-> [q |-> t], out |-> [q |-> t]]

\* func (slf *RepoUser) WithTx(tx) *RepoUser { return &RepoUser{tx} }
RepoUserWithTx(slf, t) == [slf |-> slf, out |-> [q |-> t]]

\* func (slf *RepoOrder) WithTx(tx) *RepoOrder { return &RepoOrder{tx} }
RepoOrderWithTx(slf, t) == [slf |-> slf, out |-> [q |-> t]]

\* variant: only the user repository is bound, the order repository is
\* taken over as it is
AdapterWithTxUserOnly(slf, t) ==
    LET u == RepoUserWithTx(slf.repoUser, t)
    IN [slf |-> [repoUser |-> u.slf, repoOrder |-> slf.repoOrder],
        out |-> NewAdapter(u.out, slf.repoOrder)]

\* variant: the adapter keeps the bound repositories in its own fields and
\* returns itself
AdapterWithTxInPlace(slf, t) ==
    LET u == RepoUserWithTx(slf.repoUser, t)
        o == RepoOrderWithTx(slf.repoOrder, t)
    IN [slf |-> NewAdapter(u.out, o.out), out |-> NewAdapter(u.out, o.out)]

\* func (slf *Adapter) WithTx(tx) *Adapter
AdapterWithTx(slf, t) ==
    LET u == RepoUserWithTx(slf.repoUser, t)
        o == RepoOrderWithTx(slf.repoOrder, t)
    IN [slf |-> [repoUser |-> u.slf, repoOrder |-> o.slf],
        out |-> NewAdapter(u.out, o.out)]

NoCalls == [begin |-> 0, bind |-> 0, fn |-> 0, commit |-> 0, rollback |-> 0,
            user |-> 0, order |-> 0]
NoRes == [begin |-> Nil, fn |-> Nil, commit |-> Nil, rollback |-> Nil,
          user |-> Nil, order |-> Nil]

Init ==
    /\ pc = [i \in Invs |-> "start"]
    /\ ctxDone = [i \in Invs |-> FALSE]
    /\ tx = [i \in Invs |-> NoTx]
    /\ wt = NewAdapter(NewRepoUser(DB), NewRepoOrder(DB))
    /\ repo = [i \in Invs |-> NoRepo]
    /\ err = [i \in Invs |-> Nil]
    /\ ret = [i \in Invs |-> Nil]
    /\ calls = [i \in Invs |-> NoCalls]
    /\ res = [i \in Invs |-> NoRes]
    /\ nq = [i \in Invs |-> 0]
    /\ txOpen = [h \in Handles |-> FALSE]
    /\ txDone = [h \in Handles |-> FALSE]
    /\ txLog = [h \in Handles |-> <<>>]
    /\ visible = [h \in Handles |-> 0]
    /\ parent = [i \in Invs |-> NoInv]

Count(log, op) == Len(SelectSeq(log, LAMBDA x : x = op))
Called(i, op) == [calls EXCEPT ![i][op] = @ + 1]
Got(i, op, e) == [res EXCEPT ![i][op] = e]
Logged(h, op) == [txLog EXCEPT ![h] = Append(@, op)]


\* ------------------------------------------------------------ *sql.Tx
\* the handles as they are now: done flags, what reached the driver, what
\* the database shows
D == [done |-> txDone, log |-> txLog, vis |-> visible]

\* Each operation takes the handles d, the handle h it is called on and the
\* answer the driver would give if the operation reached it, and yields the
\* error returned to the caller with the handles as the call leaves them.
Kept(d, h, e) == [err |-> e, d |-> d]
\* the database makes the statements of a transaction visible when it
\* answers the commit with success, and at no other moment
Sent(d, h, op, e, fin) ==
    [err |-> e,
     d |-> [done |-> [d.done EXCEPT ![h] = fin],
            log |-> [d.log EXCEPT ![h] = Append(@, op)],
            vis |-> [d.vis EXCEPT ![h] = IF op = "commit" /\ e = Nil
                                          THEN Count(d.log[h], "exec") ELSE @]]]

\* tx.ExecContext(ctx, ...)
TxExec(d, h, drv) ==
    IF ctxDone[h] THEN Kept(d, h, Canceled)
    ELSE IF d.done[h] THEN Kept(d, h, ErrTxDone)
    ELSE Sent(d, h, "exec", drv, FALSE)

\* tx.Commit()
TxCommit(d, h, drv) ==
    IF ctxDone[h] THEN Kept(d, h, IF d.done[h] THEN ErrTxDone ELSE Canceled)
    ELSE IF d.done[h] THEN Kept(d, h, ErrTxDone)
    ELSE Sent(d, h, "commit", drv, TRUE)

\* variant: Rollback reaches the driver whether the handle is done or not
TxRollbackAlways(d, h, drv) == Sent(d, h, "rollback", drv, TRUE)

\* tx.Rollback()
TxRollback(d, h, drv) ==
    IF d.done[h] THEN Kept(d, h, ErrTxDone)
    ELSE Sent(d, h, "rollback", drv, TRUE)

\* the sql package rolls back a transaction whose context is cancelled
\* (awaitDone); what the driver answers is dropped
Awaited(d, h, drv) ==
    IF ctxDone[h] /\ ~d.done[h] THEN TxRollback(d, h, drv).d ELSE d

DriverAnswers == {Nil} \cup DriverErrs

\* ------------------------------------------------------------ impl.InTx
\* variant: the failed begin is not returned from
AfterBeginNoReturn(e) ==
    [pc |-> "begun", ret |-> IF e # Nil THEN Errorf("begin tx", e) ELSE Nil]

\* variant: another stage label
AfterBeginLabel(e) ==
    IF e # Nil THEN [pc |-> "returned", ret |-> Errorf("begin", e)]
    ELSE [pc |-> "begun", ret |-> Nil]

\* variant: the transaction is committed before the callback is called
AfterBeginCommitFirst(e) ==
    IF e # Nil THEN [pc |-> "returned", ret |-> Errorf("begin tx", e)]
    ELSE [pc |-> "commit", ret |-> Nil]

\* if err != nil { return fmt.Errorf("begin tx: %w", err) }
AfterBegin(e) ==
    IF e # Nil THEN [pc |-> "returned", ret |-> Errorf("begin tx", e)]
    ELSE [pc |-> "begun", ret |-> Nil]

\* variant: returns after a successful callback without committing
AfterFnNoCommit(e) ==
    IF e # Nil THEN [pc |-> "defer", ret |-> Errorf("trm callback", e)]
    ELSE [pc |-> "defer", ret |-> Nil]

\* variant: the callback's error does not stop the commit
AfterFnCommitAnyway(e) ==
    IF e # Nil THEN [pc |-> "commit", ret |-> Errorf("trm callback", e)]
    ELSE [pc |-> "commit", ret |-> Nil]

\* variant: the callback's error is formatted with %v
AfterFnV(e) ==
    IF e # Nil THEN [pc |-> "defer", ret |-> ErrorfV("trm callback", e)]
    ELSE [pc |-> "commit", ret |-> Nil]

\* variant: another stage label
AfterFnLabel(e) ==
    IF e # Nil THEN [pc |-> "defer", ret |-> Errorf("callback", e)]
    ELSE [pc |-> "commit", ret |-> Nil]

\* if err != nil { return fmt.Errorf("trm callback: %w", err) }
AfterFn(e) ==
    IF e # Nil THEN [pc |-> "defer", ret |-> Errorf("trm callback", e)]
    ELSE [pc |-> "commit", ret |-> Nil]

\* variant: the commit's error is not returned
AfterCommitSwallow(e) == [pc |-> "defer", ret |-> Nil]

\* variant: the commit's error carries the label of another stage
AfterCommitLabel(e) ==
    IF e # Nil THEN [pc |-> "defer", ret |-> Errorf("begin tx", e)]
    ELSE [pc |-> "defer", ret |-> Nil]

\* if err != nil { return fmt.Errorf("commit tx: %w", err) }; return nil
AfterCommit(e) ==
    IF e # Nil THEN [pc |-> "defer", ret |-> Errorf("commit tx", e)]
    ELSE [pc |-> "defer", ret |-> Nil]

\* variant: a call made inside a callback joins the transaction of that
\* callback instead of beginning one
InTxBeginJoin(i) ==
    /\ pc[i] = "start"
    /\ IF parent[i] = NoInv
       THEN \E drv \in DriverAnswers :
              LET e == IF ctxDone[i] THEN Canceled ELSE drv
                  h == IF e = Nil THEN i ELSE NoTx
                  a == AfterBegin(e)
              IN /\ err' = [err EXCEPT ![i] = e]
                 /\ tx' = [tx EXCEPT ![i] = h]
                 /\ res' = Got(i, "begin", e)
                 /\ pc' = [pc EXCEPT ![i] = a.pc]
                 /\ ret' = [ret EXCEPT ![i] = a.ret]
                 /\ IF e = Nil
                    THEN /\ txOpen' = [txOpen EXCEPT ![h] = TRUE]
                         /\ txLog' = Logged(h, "begin")
                    ELSE UNCHANGED <<txOpen, txLog>>
       ELSE /\ tx' = [tx EXCEPT ![i] = tx[parent[i]]]
            /\ pc' = [pc EXCEPT ![i] = "begun"]
            /\ res' = Got(i, "begin", Nil)
            /\ UNCHANGED <<err, ret, txOpen, txLog>>
    /\ calls' = Called(i, "begin")
    /\ UNCHANGED <<ctxDone, repo, nq, txDone, wt, visible, parent>>

\* tx, err := slf.db.BeginTx(ctx, nil), the check of err, defer tx.Rollback()
InTxBegin(i) ==
    /\ pc[i] = "start"
    /\ \E drv \in DriverAnswers :
         LET e == IF ctxDone[i] THEN Canceled ELSE drv
             h == IF e = Nil THEN i ELSE NoTx
             a == AfterBegin(e)
         IN /\ err' = [err EXCEPT ![i] = e]
            /\ tx' = [tx EXCEPT ![i] = h]
            /\ calls' = Called(i, "begin")
            /\ res' = Got(i, "begin", e)
            /\ pc' = [pc EXCEPT ![i] = a.pc]
            /\ ret' = [ret EXCEPT ![i] = a.ret]
            /\ IF e = Nil
               THEN /\ txOpen' = [txOpen EXCEPT ![h] = TRUE]
                    /\ txLog' = Logged(h, "begin")
               ELSE UNCHANGED <<txOpen, txLog>>
    /\ UNCHANGED <<ctxDone, repo, nq, txDone, wt, visible, parent>>

\* variant: the handle is kept in a field of the executor that concurrent
\* invocations share, so the binding sees the handle of any running one
InTxCallShared(i) ==
    /\ pc[i] = "begun"
    /\ \E h \in {tx[j] : j \in {k \in Invs : pc[k] \in {"begun", "fn"}}} :
         LET b == AdapterWithTx(wt, h)
         IN /\ wt' = b.slf
            /\ repo' = [repo EXCEPT ![i] = b.out]
    /\ calls' = [calls EXCEPT ![i].bind = @ + 1, ![i].fn = @ + 1]
    /\ pc' = [pc EXCEPT ![i] = "fn"]
    /\ UNCHANGED <<ctxDone, tx, err, ret, res, nq, txOpen, txDone, txLog,
                   visible, parent>>

\* variant: the callback is entered although it has run, and the resource is
\* bound again for it
InTxCallAgain(i) ==
    /\ pc[i] \in {"begun", "fn"}
    /\ calls[i].fn < 2
    /\ LET b == AdapterWithTx(wt, tx[i])
       IN /\ wt' = b.slf
          /\ repo' = [repo EXCEPT ![i] = b.out]
    /\ calls' = [calls EXCEPT ![i].bind = @ + 1, ![i].fn = @ + 1]
    /\ pc' = [pc EXCEPT ![i] = "fn"]
    /\ UNCHANGED <<ctxDone, tx, err, ret, res, nq, txOpen, txDone, txLog,
                   visible, parent>>

\* fn(slf.wt.WithTx(tx)): the resource is bound and the callback entered
InTxCall(i) ==
    /\ pc[i] = "begun"
    /\ LET b == AdapterWithTx(wt, tx[i])
       IN /\ wt' = b.slf
          /\ repo' = [repo EXCEPT ![i] = b.out]
    /\ calls' = [calls EXCEPT ![i].bind = @ + 1, ![i].fn = @ + 1]
    /\ pc' = [pc EXCEPT ![i] = "fn"]
    /\ UNCHANGED <<ctxDone, tx, err, ret, res, nq, txOpen, txDone, txLog,
                   visible, parent>>

\* the callback issues a query through the resource it was given:
\* r.CreateUser goes to repoUser's target, r.CreateOrder to repoOrder's.
\* A statement the handle refuses changes nothing and is not counted.
FnQuery(i) ==
    /\ pc[i] = "fn"
    /\ nq[i] < MaxQueries
    /\ \E q \in {repo[i].repoUser.q, repo[i].repoOrder.q}, drv \in DriverAnswers :
         IF q \in Handles
         THEN LET r == TxExec(D, q, drv)
              IN /\ txDone' = r.d.done
                 /\ txLog' = r.d.log
                 /\ visible' = r.d.vis
                 /\ nq' = [nq EXCEPT ![i] = IF r.d.log = txLog THEN @ ELSE @ + 1]
         ELSE \* a statement on the plain connection is in no transaction
              /\ UNCHANGED <<txDone, txLog, visible>>
              /\ nq' = [nq EXCEPT ![i] = @ + 1]
    /\ UNCHANGED <<pc, ctxDone, tx, repo, err, ret, calls, res, txOpen, wt,
                   parent>>

\* defer tx.Rollback() (trm.go:29).  Control leaves InTx with the handles d,
\* the counts calls, the results res and the value ret to return; the
\* deferred call runs before the caller has control again, so leaving and
\* the call are one step.  If the ctx is cancelled the sql package may roll
\* the transaction back just before the deferred call does.

\* variant: no rollback is deferred
NoDeferredRollback(i, m, to) ==
    /\ txDone' = m.d.done
    /\ txLog' = m.d.log
    /\ visible' = m.d.vis
    /\ calls' = m.calls
    /\ res' = m.res
    /\ ret' = [ret EXCEPT ![i] = m.ret]
    /\ pc' = [pc EXCEPT ![i] = to]

\* variant: the error of the deferred Rollback replaces the value returned
DeferredRollbackReturned(i, m, to) ==
    \E drv \in DriverAnswers, early \in BOOLEAN :
        LET r == TxRollback(IF early THEN Awaited(m.d, tx[i], drv) ELSE m.d, tx[i], drv)
        IN /\ txDone' = r.d.done
           /\ txLog' = r.d.log
           /\ visible' = r.d.vis
           /\ calls' = [m.calls EXCEPT ![i].rollback = @ + 1]
           /\ res' = [m.res EXCEPT ![i].rollback = r.err]
           /\ ret' = [ret EXCEPT ![i] = IF r.err \notin {Nil, ErrTxDone}
                                        THEN Errorf("rollback tx", r.err) ELSE m.ret]
           /\ pc' = [pc EXCEPT ![i] = to]

\* the deferred call; what it returns is dropped (res keeps it for the
\* properties only)
DeferredRollback(i, m, to) ==
    \E drv \in DriverAnswers, early \in BOOLEAN :
        LET r == TxRollback(IF early THEN Awaited(m.d, tx[i], drv) ELSE m.d, tx[i], drv)
        IN /\ txDone' = r.d.done
           /\ txLog' = r.d.log
           /\ visible' = r.d.vis
           /\ calls' = [m.calls EXCEPT ![i].rollback = @ + 1]
           /\ res' = [m.res EXCEPT ![i].rollback = r.err]
           /\ ret' = [ret EXCEPT ![i] = m.ret]
           /\ pc' = [pc EXCEPT ![i] = to]

\* the callback returns; err = fn(...), the check of err, and the return
\* through the deferred Rollback when it is an error
Returns(i, e) ==
    /\ LET a == AfterFn(e)
       IN /\ err' = [err EXCEPT ![i] = e]
          /\ IF a.pc = "defer"
             THEN DeferredRollback(i, [d |-> D, calls |-> calls,
                                       res |-> Got(i, "fn", e), ret |-> a.ret],
                                   "returned")
             ELSE /\ res' = Got(i, "fn", e)
                  /\ pc' = [pc EXCEPT ![i] = a.pc]
                  /\ ret' = [ret EXCEPT ![i] = a.ret]
                  /\ UNCHANGED <<calls, txDone, txLog, visible>>
    /\ nq' = [nq EXCEPT ![i] = 0]
    /\ UNCHANGED <<ctxDone, tx, repo, txOpen, wt, parent>>

\* a callback returns an error of its own or nil
FnReturn(i) ==
    /\ pc[i] = "fn"
    /\ \E e \in {Nil} \cup CallbackErrs : Returns(i, e)

\* variant: Rollback is not deferred but called where the callback's error
\* is handled, which a panic passes by
FnPanicNoDefer(i) ==
    /\ pc[i] = "fn"
    /\ pc' = [pc EXCEPT ![i] = "panicked"]
    /\ nq' = [nq EXCEPT ![i] = 0]
    /\ UNCHANGED <<ctxDone, tx, repo, err, ret, calls, res, txOpen, txDone,
                   txLog, wt, visible, parent>>

\* the callback panics: fn does not return, the panic unwinds InTx through
\* the deferred Rollback and InTx returns no value
FnPanic(i) ==
    /\ pc[i] = "fn"
    /\ DeferredRollback(i, [d |-> D, calls |-> calls, res |-> res, ret |-> ret[i]],
                        "panicked")
    /\ nq' = [nq EXCEPT ![i] = 0]
    /\ UNCHANGED <<ctxDone, tx, repo, err, txOpen, wt, parent>>

\* variant: the handle is kept in a field of the executor that concurrent
\* invocations share, so Commit is called on the handle of any running one
InTxCommitShared(i) ==
    /\ pc[i] = "commit"
    /\ \E h \in {tx[j] : j \in {k \in Invs : txOpen[k] /\ pc[k] # "returned"}},
          drv \in DriverAnswers :
         LET r == TxCommit(D, h, drv)
             a == AfterCommit(r.err)
         IN /\ err' = [err EXCEPT ![i] = r.err]
            /\ DeferredRollback(i, [d |-> r.d, calls |-> Called(i, "commit"),
                                    res |-> Got(i, "commit", r.err), ret |-> a.ret],
                                "returned")
    /\ UNCHANGED <<ctxDone, tx, repo, nq, txOpen, wt, parent>>

\* err = tx.Commit(), the check of err, and the return through the deferred
\* Rollback
InTxCommit(i) ==
    /\ pc[i] = "commit"
    /\ \E drv \in DriverAnswers :
         LET r == TxCommit(D, tx[i], drv)
             a == AfterCommit(r.err)
         IN /\ err' = [err EXCEPT ![i] = r.err]
            /\ DeferredRollback(i, [d |-> r.d, calls |-> Called(i, "commit"),
                                    res |-> Got(i, "commit", r.err), ret |-> a.ret],
                                "returned")
    /\ UNCHANGED <<ctxDone, tx, repo, nq, txOpen, wt, parent>>

\* ------------------------------------------------------- the environment
\* the caller's ctx is cancelled or its deadline passes; once the handle is
\* finished nothing in InTx reads the ctx any more
Cancel(i) ==
    /\ pc[i] \notin {"returned", "panicked"}
    /\ ~ctxDone[i]
    /\ ~txDone[i]
    /\ ctxDone' = [ctxDone EXCEPT ![i] = TRUE]
    /\ UNCHANGED <<pc, tx, repo, err, ret, calls, res, nq, txOpen, txDone,
                   txLog, wt, visible, parent>>

\* the sql package rolls back a transaction whose context is cancelled
AwaitDone(h) ==
    /\ txOpen[h]
    /\ ctxDone[h]
    /\ ~txDone[h]
    /\ \E drv \in DriverAnswers :
         LET d == Awaited(D, h, drv)
         IN /\ txDone' = d.done
            /\ txLog' = d.log
            /\ visible' = d.vis
    /\ UNCHANGED <<pc, ctxDone, tx, repo, err, ret, calls, res, nq, txOpen,
                   wt, parent>>

Next ==
    \/ \E i \in Invs : InTxBegin(i)
    \/ \E i \in Invs : InTxCall(i)
    \/ \E i \in Invs : FnQuery(i)
    \/ \E i \in Invs : FnReturn(i)
    \/ \E i \in Invs : InTxCommit(i)
    \/ \E i \in Invs : Cancel(i)
    \/ \E h \in Handles : AwaitDone(h)

Spec == Init /\ [][Next]_vars

\* the same with callbacks that may panic
NextPanic ==
    \/ \E i \in Invs : InTxBegin(i)
    \/ \E i \in Invs : InTxCall(i)
    \/ \E i \in Invs : FnQuery(i)
    \/ \E i \in Invs : FnReturn(i)
    \/ \E i \in Invs : FnPanic(i)
    \/ \E i \in Invs : InTxCommit(i)
    \/ \E i \in Invs : Cancel(i)
    \/ \E h \in Handles : AwaitDone(h)

SpecPanic == Init /\ [][NextPanic]_vars

\* ------------------------------------------------------------ nested calls
\* A callback may call InTx on the executor it runs under.  Root is the call
\* made from outside; each other invocation is made by a running callback,
\* which waits for it to return.
Root == 1
\* the callback of invocation i is inside a call of InTx it made
Waiting(i) == \E j \in Invs : parent[j] = i /\ pc[j] # "returned"

\* the callback of invocation i calls InTx: invocation j
FnCallsInTx(i, j) ==
    /\ pc[i] = "fn" /\ ~Waiting(i)
    /\ j # Root /\ j # i /\ pc[j] = "start" /\ parent[j] = NoInv
    /\ parent' = [parent EXCEPT ![j] = i]
    /\ UNCHANGED <<pc, ctxDone, tx, wt, repo, err, ret, calls, res, nq, txOpen, txDone,
                   txLog, visible>>

NextNested ==
    \/ \E i \in Invs : (i = Root \/ parent[i] # NoInv) /\ InTxBegin(i)
    \/ \E i \in Invs : InTxCall(i)
    \/ \E i, j \in Invs : FnCallsInTx(i, j)
    \/ \E i \in Invs : ~Waiting(i) /\ FnQuery(i)
    \/ \E i \in Invs : ~Waiting(i) /\ FnReturn(i)
    \/ \E i \in Invs : InTxCommit(i)
    \/ \E i \in Invs : Cancel(i)
    \/ \E h \in Handles : AwaitDone(h)

SpecNested == Init /\ [][NextNested]_vars

\* ------------------------------------------------------- Service.Create
\* Service.Create calls InTx with a callback that creates the user and then
\* the order through the resource it is given; invocation i is the InTx call
\* of the i-th Service.Create.  nq[i] counts the items CreateOrder has
\* inserted; the list of items has any length up to MaxItems.
ItemNames == <<"item1", "item2", "item3">>

\* RepoUser.CreateUser: the error it returns for the error of ExecContext
RepoUserCreateUser(e) == IF e # Nil THEN Errorf("create user", e) ELSE Nil
\* RepoOrder.CreateOrder: the error it returns when the insert of item fails
RepoOrderCreateOrder(item, e) ==
    IF e # Nil THEN Errorf("create order for item '" \o item \o "'", e) ELSE Nil

\* variant: the callback goes on to CreateOrder whatever CreateUser returned
SvcCreateUserIgnoreErr(i) ==
    /\ pc[i] = "fn"
    /\ \E drv \in DriverAnswers :
         LET r == TxExec(D, repo[i].repoUser.q, drv)
             e == RepoUserCreateUser(r.err)
         IN /\ txDone' = r.d.done
            /\ txLog' = r.d.log
            /\ visible' = r.d.vis
            /\ res' = Got(i, "user", e)
            /\ err' = [err EXCEPT ![i] = Nil]
            /\ pc' = [pc EXCEPT ![i] = "order"]
            /\ calls' = [calls EXCEPT ![i].user = @ + 1, ![i].order = @ + 1]
    /\ UNCHANGED <<ctxDone, tx, repo, ret, nq, txOpen, wt, parent>>

\* err := r.CreateUser(ctx, name) and the check of err; r.CreateOrder is
\* entered when it is nil
SvcCreateUser(i) ==
    /\ pc[i] = "fn"
    /\ \E drv \in DriverAnswers :
         LET r == TxExec(D, repo[i].repoUser.q, drv)
             e == RepoUserCreateUser(r.err)
         IN /\ txDone' = r.d.done
            /\ txLog' = r.d.log
            /\ visible' = r.d.vis
            /\ res' = Got(i, "user", e)
            /\ IF e # Nil
               THEN /\ err' = [err EXCEPT ![i] = Errorf("create user", e)]
                    /\ pc' = [pc EXCEPT ![i] = "fnret"]
                    /\ calls' = Called(i, "user")
               ELSE /\ err' = [err EXCEPT ![i] = Nil]
                    /\ pc' = [pc EXCEPT ![i] = "order"]
                    /\ calls' = [calls EXCEPT ![i].user = @ + 1, ![i].order = @ + 1]
    /\ UNCHANGED <<ctxDone, tx, repo, ret, nq, txOpen, wt, parent>>

\* RepoOrder.CreateOrder inserts the next item; an error ends the loop, and
\* err = r.CreateOrder(ctx, items) with the check of err ends the callback
SvcCreateOrderItem(i) ==
    /\ pc[i] = "order"
    /\ nq[i] < MaxItems
    /\ \E drv \in DriverAnswers :
         LET r == TxExec(D, repo[i].repoOrder.q, drv)
             e == RepoOrderCreateOrder(ItemNames[nq[i] + 1], r.err)
         IN /\ txDone' = r.d.done
            /\ txLog' = r.d.log
            /\ visible' = r.d.vis
            /\ IF e # Nil
               THEN /\ res' = Got(i, "order", e)
                    /\ err' = [err EXCEPT ![i] = Errorf("create order", e)]
                    /\ pc' = [pc EXCEPT ![i] = "fnret"]
                    /\ nq' = nq
               ELSE /\ nq' = [nq EXCEPT ![i] = @ + 1]
                    /\ UNCHANGED <<err, pc, res>>
    /\ UNCHANGED <<ctxDone, tx, repo, ret, calls, txOpen, wt, parent>>

\* the items are all inserted: CreateOrder and the callback return nil
SvcOrderDone(i) ==
    /\ pc[i] = "order"
    /\ Returns(i, Nil)

\* the callback has failed and returns its error to InTx
SvcReturnErr(i) ==
    /\ pc[i] = "fnret"
    /\ Returns(i, err[i])

\* variant: Service.Create formats the error of InTx with %v
AfterInTxV(e) == IF e # Nil THEN ErrorfV("create user & order", e) ELSE Nil

\* if err != nil { return fmt.Errorf("create user & order: %w", err) }
AfterInTx(e) == IF e # Nil THEN Errorf("create user & order", e) ELSE Nil

NextSvc ==
    \/ \E i \in Invs : InTxBegin(i)
    \/ \E i \in Invs : InTxCall(i)
    \/ \E i \in Invs : SvcCreateUser(i)
    \/ \E i \in Invs : SvcCreateOrderItem(i)
    \/ \E i \in Invs : SvcOrderDone(i)
    \/ \E i \in Invs : SvcReturnErr(i)
    \/ \E i \in Invs : InTxCommit(i)
    \/ \E i \in Invs : Cancel(i)
    \/ \E h \in Handles : AwaitDone(h)

SpecSvc == Init /\ [][NextSvc]_vars


\* ------------------------------------------------------------ properties
\* what reached the driver on the handle of invocation i
Issued(i, op) == Count(txLog[i], op)

Returned(i) == pc[i] = "returned"
BeginOk(i) == calls[i].begin = 1 /\ res[i].begin = Nil
BeginFailed(i) == calls[i].begin = 1 /\ res[i].begin # Nil
FnOk(i) == calls[i].fn = 1 /\ pc[i] # "fn" /\ res[i].fn = Nil
FnFailed(i) == calls[i].fn = 1 /\ res[i].fn # Nil
CommitFailed(i) == calls[i].commit = 1 /\ res[i].commit # Nil
CommitOk(i) == calls[i].commit = 1 /\ res[i].commit = Nil

\* the message of e is the label, ": ", and the message of the error e wraps
HasLabel(e, l) == /\ e # Nil
                  /\ Unwrap(e) # Nil
                  /\ Msg(e) = l \o ": " \o Msg(Unwrap(e))

\* e is the error fmt.Errorf("<l>: %w", c) returns
Wraps(e, l, c) == /\ e # Nil
                  /\ Msg(e) = l \o ": " \o Msg(c)
                  /\ Unwrap(e) = c
\* Error() of e returns m
Says(e, m) == e # Nil /\ Msg(e) = m

\* C1 as stated: when begin succeeds and the callback returns no error, one
\* commit and no rollback reach the database by the time InTx returns.
C1_AsStated ==
    \A i \in Invs :
        (Returned(i) /\ BeginOk(i) /\ FnOk(i))
            => (Issued(i, "commit") = 1 /\ Issued(i, "rollback") = 0)

\* C1, amended: when begin succeeds and the callback returns no error, InTx
\* calls Commit exactly once.  Unless the caller's context was cancelled
\* before that call, exactly one commit and no rollback reach the database,
\* whether the commit succeeds or fails; when the context was cancelled
\* first, Commit returns an error without committing and the transaction is
\* rolled back exactly once.
C1_CommitOnSuccess ==
    \A i \in Invs :
        (Returned(i) /\ BeginOk(i) /\ FnOk(i))
            => /\ calls[i].commit = 1
               /\ IF res[i].commit \in {Canceled, ErrTxDone}
                  THEN ctxDone[i] /\ Issued(i, "commit") = 0 /\ Issued(i, "rollback") = 1
                  ELSE Issued(i, "commit") = 1 /\ Issued(i, "rollback") = 0

\* an invocation whose commit failed at the driver has returned, the
\* deferred Rollback has run and only the commit reached the database
C1_Witness ==
    \E i \in Invs :
        /\ Returned(i) /\ FnOk(i)
        /\ res[i].commit \in DriverErrs
        /\ calls[i].rollback = 1
        /\ txLog[i] = <<"begin", "commit">>

\* C2: when begin succeeds and the callback returns an error, no commit is
\* ever issued on the invocation's handle, and by the time InTx returns
\* exactly one rollback has been issued on that handle, InTx having called
\* Rollback on it.
C2_RollbackOnError ==
    \A i \in Invs :
        (BeginOk(i) /\ FnFailed(i))
            => /\ calls[i].commit = 0
               /\ Issued(i, "commit") = 0
               /\ Returned(i) => /\ tx[i] = i
                                 /\ calls[i].rollback = 1
                                 /\ Issued(i, "rollback") = 1

C2_Witness ==
    \E i \in Invs :
        /\ Returned(i) /\ FnFailed(i)
        /\ ~ctxDone[i]
        /\ txLog[i] = <<"begin", "exec", "rollback">>

\* C3: an invocation that began a transaction has issued exactly one of
\* commit and rollback on its handle when it returns.
C3_ExactlyOneFinalize ==
    \A i \in Invs :
        (Returned(i) /\ BeginOk(i))
            => Issued(i, "commit") + Issued(i, "rollback") = 1

C3_Witness ==
    \E i, j \in Invs :
        /\ Returned(i) /\ Returned(j)
        /\ Issued(i, "commit") = 1 /\ Issued(i, "rollback") = 0
        /\ Issued(j, "commit") = 0 /\ Issued(j, "rollback") = 1

\* C4: when begin fails InTx returns at once: the callback is never
\* invoked, the resource is not bound, Commit and Rollback are not called
\* and nothing reaches the database.
C4_NoFinalizeOnBeginFailure ==
    \A i \in Invs :
        BeginFailed(i)
            => /\ Returned(i)
               /\ tx[i] = NoTx /\ ~txOpen[i]
               /\ calls[i].bind = 0 /\ calls[i].fn = 0
               /\ calls[i].commit = 0 /\ calls[i].rollback = 0
               /\ txLog[i] = <<>>

C4_Witness ==
    \E i \in Invs : Returned(i) /\ res[i].begin \in DriverErrs /\ ret[i] # Nil

\* C5: when the callback fails with E, errors.Is(returned error, E) holds,
\* E is what the returned error unwraps to, and every cause E itself wraps
\* is still found.
C5_CausePreserved ==
    \A i \in Invs :
        (Returned(i) /\ FnFailed(i))
            => /\ Is(ret[i], res[i].fn)
               /\ Unwrap(ret[i]) = res[i].fn
               /\ \A k \in 1..Len(res[i].fn) :
                      Is(ret[i], SubSeq(res[i].fn, k, Len(res[i].fn)))

\* the callback returned an error that wraps a cause of its own
C5_Witness ==
    \E i \in Invs :
        /\ Returned(i) /\ FnFailed(i)
        /\ Len(res[i].fn) = 2
        /\ Is(ret[i], NewErr(7, "order creation error"))

\* C6: when InTx has returned, its handle is finished or was never created.
C6_NoOpenHandle ==
    \A i \in Invs :
        Returned(i) => \/ tx[i] = NoTx /\ ~txOpen[i]
                       \/ tx[i] = i /\ txDone[i]

\* one invocation has returned without a handle or after a failed commit,
\* and one after a failed callback or a commit that succeeded
C6_Witness ==
    /\ \E i \in Invs : Returned(i) /\ (BeginFailed(i) \/ CommitFailed(i))
    /\ \E i \in Invs : Returned(i) /\ (FnFailed(i) \/ CommitOk(i))

\* C7: when begin fails with cause C, InTx returns "begin tx: " followed by
\* C's message, wrapping C, and no insert, commit or rollback reaches the
\* database.
C7_BeginError ==
    \A i \in Invs :
        (Returned(i) /\ BeginFailed(i))
            => /\ Wraps(ret[i], "begin tx", res[i].begin)
               /\ nq[i] = 0
               /\ Issued(i, "exec") = 0
               /\ Issued(i, "commit") = 0
               /\ Issued(i, "rollback") = 0

C7_Witness ==
    \E i \in Invs :
        /\ Returned(i) /\ BeginFailed(i)
        /\ Says(ret[i], "begin tx: err")

\* C8: when the callback succeeds and commit fails with cause C, InTx
\* returns "commit tx: " followed by C's message, wrapping C; when commit
\* succeeds InTx returns nil.
C8_CommitError ==
    \A i \in Invs :
        (Returned(i) /\ FnOk(i))
            => /\ CommitFailed(i) => Wraps(ret[i], "commit tx", res[i].commit)
               /\ CommitOk(i) => ret[i] = Nil

C8_Witness ==
    /\ \E i \in Invs : Returned(i) /\ FnOk(i) /\ Says(ret[i], "commit tx: err")
    /\ \E i \in Invs : Returned(i) /\ FnOk(i) /\ CommitOk(i)

\* C9: when the callback returns E, InTx returns an error whose message is
\* "trm callback: " followed by E's message.
C9_CallbackMessage ==
    \A i \in Invs :
        (Returned(i) /\ FnFailed(i))
            => Says(ret[i], "trm callback: " \o Msg(res[i].fn))

C9_Witness ==
    \E i \in Invs :
        /\ Returned(i) /\ FnFailed(i)
        /\ Says(ret[i], "trm callback: create order: order creation error")

\* every returned error carries exactly one of the labels, the one of the
\* stage that failed
StageLabels(begin, callback, commit) ==
    \A i \in Invs :
        (Returned(i) /\ ret[i] # Nil)
            => /\ Cardinality({l \in {begin, callback, commit} : HasLabel(ret[i], l)}) = 1
               /\ HasLabel(ret[i], begin) <=> BeginFailed(i)
               /\ HasLabel(ret[i], callback) <=> FnFailed(i)
               /\ HasLabel(ret[i], commit) <=> CommitFailed(i)

\* C10 as stated: the labels are "begin tx", "callback" and "commit tx".
C10_AsStated == StageLabels("begin tx", "callback", "commit tx")

\* C10, amended: every error InTx returns is wrapped with exactly one of
\* "begin tx", "trm callback", "commit tx", and the label is that of the
\* stage that failed.
C10_StageLabels == StageLabels("begin tx", "trm callback", "commit tx")

\* the three failures have each been returned
C10_Witness ==
    \E i, j \in Invs :
        /\ Returned(i) /\ Returned(j)
        /\ HasLabel(ret[i], "commit tx") /\ CommitFailed(i)
        /\ \/ HasLabel(ret[j], "trm callback") /\ FnFailed(j)
           \/ HasLabel(ret[j], "begin tx") /\ BeginFailed(j)

\* ------------------------------------------------------ terminal outcomes
\* begin failed: the error is returned under "begin tx"; nothing was bound,
\* called, committed or rolled back
BeginFailedOutcome(i) ==
    /\ BeginFailed(i) /\ HasLabel(ret[i], "begin tx")
    /\ calls[i].fn = 0 /\ calls[i].commit = 0 /\ calls[i].rollback = 0
    /\ txLog[i] = <<>>

\* the callback failed: its error is returned under "trm callback", Commit
\* was not called and the transaction was rolled back
CallbackFailedOutcome(i) ==
    /\ BeginOk(i) /\ FnFailed(i) /\ HasLabel(ret[i], "trm callback")
    /\ calls[i].commit = 0
    /\ Issued(i, "commit") = 0 /\ Issued(i, "rollback") = 1

\* the callback succeeded and Commit returned an error, which is returned
\* under "commit tx"
CommitFailedOutcome(i) ==
    /\ BeginOk(i) /\ FnOk(i) /\ CommitFailed(i) /\ HasLabel(ret[i], "commit tx")

\* the callback succeeded, Commit returned nil and InTx returns nil
SuccessOutcome(i) ==
    /\ BeginOk(i) /\ FnOk(i) /\ CommitOk(i) /\ ret[i] = Nil
    /\ Issued(i, "commit") = 1 /\ Issued(i, "rollback") = 0

Outcomes(i) ==
    {o \in {"begin-failed", "callback-failed-rolled-back", "commit-failed", "success"} :
        \/ o = "begin-failed" /\ BeginFailedOutcome(i)
        \/ o = "callback-failed-rolled-back" /\ CallbackFailedOutcome(i)
        \/ o = "commit-failed" /\ CommitFailedOutcome(i)
        \/ o = "success" /\ SuccessOutcome(i)}

\* C11: an invocation of InTx that has returned is in exactly one of the
\* four outcomes begin-failed, callback-failed-rolled-back, commit-failed
\* and success, and in no other.
C11_FourOutcomes ==
    \A i \in Invs : Returned(i) => Cardinality(Outcomes(i)) = 1

\* one invocation has ended in success and another with its callback failed
\* and rolled back
C11_Witness ==
    \E i, j \in Invs :
        /\ Returned(i) /\ Outcomes(i) = {"success"}
        /\ Returned(j) /\ Outcomes(j) = {"callback-failed-rolled-back"}

\* C12: an invocation calls BeginTx exactly once and so has at most one
\* handle; when begin succeeds it binds the resource exactly once and calls
\* the callback exactly once; when begin fails it binds nothing and calls
\* nothing.
C12_OneBeginBindCall ==
    \A i \in Invs :
        /\ calls[i].begin = IF pc[i] = "start" THEN 0 ELSE 1
        /\ Issued(i, "begin") <= 1
        /\ tx[i] \in {NoTx, i}
        /\ calls[i].bind <= 1 /\ calls[i].fn <= 1
        /\ Returned(i) =>
              /\ BeginOk(i) => calls[i].bind = 1 /\ calls[i].fn = 1
              /\ BeginFailed(i) => /\ calls[i].bind = 0 /\ calls[i].fn = 0
                                   /\ tx[i] = NoTx /\ ~txOpen[i]

\* both cases have returned: one invocation began, bound and called once,
\* the other failed to begin
C12_Witness ==
    \E i, j \in Invs :
        /\ Returned(i) /\ BeginOk(i) /\ calls[i].bind = 1 /\ calls[i].fn = 1
        /\ Returned(j) /\ BeginFailed(j) /\ calls[j].bind = 0

\* C13 as stated: the callback is invoked exactly once in every call of
\* InTx.
C13_AsStated ==
    \A i \in Invs : Returned(i) => calls[i].fn = 1

\* C13, amended: the callback is invoked exactly once in a call of InTx
\* whose begin succeeds and never in a call whose begin fails; it is never
\* invoked a second time.
C13_OncePerBegunCall ==
    \A i \in Invs :
        /\ calls[i].fn <= 1
        /\ Returned(i) => (calls[i].fn = 1 <=> BeginOk(i))
        /\ Returned(i) => (calls[i].fn = 0 <=> BeginFailed(i))

\* a call whose begin failed has returned without invoking the callback,
\* next to one that invoked it
C13_Witness ==
    \E i, j \in Invs :
        /\ Returned(i) /\ BeginFailed(i) /\ calls[i].fn = 0
        /\ Returned(j) /\ calls[j].fn = 1

\* ------------------------------------------------------------- binding
\* the resource handed to the callback of invocation i has been created
Bound(i) == calls[i].bind >= 1
\* the targets of the constituents of a resource
Targets(r) == {r.repoUser.q, r.repoOrder.q}

\* C14: WithTx returns a new instance and leaves its receiver as it was:
\* after any number of bindings the resource the executor was built with,
\* and each repository in it, still targets the plain connection, and the
\* instances returned do not.
C14_BindLeavesOriginal ==
    /\ wt = NewAdapter(NewRepoUser(DB), NewRepoOrder(DB))
    /\ \A i \in Invs : Bound(i) => repo[i] # wt /\ DB \notin Targets(repo[i])

\* every invocation has bound its resource and the original still targets
\* the plain connection
C14_Witness ==
    /\ \A i \in Invs : Bound(i) /\ Targets(repo[i]) = {tx[i]}
    /\ Targets(wt) = {DB}

\* C15: the resource passed to the callback of an invocation targets the
\* handle that invocation's BeginTx returned and no handle of another
\* invocation, whether the invocations overlap or follow each other.
C15_BoundToOwnHandle ==
    \A i \in Invs :
        calls[i].fn >= 1 =>
            /\ tx[i] = i /\ Issued(i, "begin") = 1
            /\ Targets(repo[i]) = {tx[i]}
            /\ \A j \in Invs \ {i} : tx[j] \notin Targets(repo[i])

\* two callbacks run at the same time, each with a resource on the open
\* handle of its own invocation
C15_Witness ==
    \E i, j \in Invs :
        /\ i # j /\ pc[i] = "fn" /\ pc[j] = "fn"
        /\ txOpen[i] /\ txOpen[j] /\ ~txDone[i] /\ ~txDone[j]
        /\ Targets(repo[i]) = {i} /\ Targets(repo[j]) = {j}

\* ------------------------------------------------------------ atomicity
\* the statements the callback of invocation i ran in its transaction
Writes(i) == Issued(i, "exec")
AllVisible(i) == visible[i] = Writes(i)
NoneVisible(i) == visible[i] = 0

\* C16: when the callback returns an error, whatever statements it ran
\* before, none of them is visible in the database once InTx has returned.
C16_FailedWorkInvisible ==
    \A i \in Invs : (Returned(i) /\ FnFailed(i)) => NoneVisible(i)

\* a callback failed after a statement of its transaction had run, and
\* InTx has returned with nothing visible
C16_Witness ==
    \E i \in Invs :
        /\ Returned(i) /\ FnFailed(i) /\ Writes(i) >= 1
        /\ NoneVisible(i) /\ Issued(i, "rollback") = 1

\* C17: after InTx returns either all statements of the callback are
\* visible or none is; all are when InTx returns nil, none is when InTx
\* returns an error, a failed commit included.
C17_AllOrNothing ==
    \A i \in Invs :
        Returned(i) =>
            /\ AllVisible(i) \/ NoneVisible(i)
            /\ ret[i] = Nil => AllVisible(i) /\ CommitOk(i)
            /\ ret[i] # Nil => NoneVisible(i)

\* one invocation returned nil with its statement visible, another returned
\* the error of a failed commit with its statement not visible
C17_Witness ==
    \E i, j \in Invs :
        /\ Returned(i) /\ ret[i] = Nil /\ Writes(i) >= 1 /\ AllVisible(i)
        /\ Returned(j) /\ CommitFailed(j) /\ Writes(j) >= 1 /\ NoneVisible(j)

\* ---------------------------------------------------------- concurrency
\* the Commit of invocation i reached the driver
CommitSent(i) == calls[i].commit = 1 /\ res[i].commit \notin {Canceled, ErrTxDone}

\* C18: whatever the interleaving, what reaches the handle of an
\* invocation is decided by that invocation alone: a commit is on the
\* handle exactly when its own Commit was sent, a rollback only after its
\* own deferred Rollback or the cancellation of its own context, statements
\* only from its own callback; no two invocations have the same handle.
C18_OwnHandleOnly ==
    /\ \A i, j \in Invs : (i # j /\ tx[i] # NoTx) => tx[i] # tx[j]
    /\ \A i \in Invs :
        /\ Issued(i, "commit") = IF CommitSent(i) THEN 1 ELSE 0
        /\ Issued(i, "rollback") <= 1
        /\ Issued(i, "rollback") = 1 => (calls[i].rollback = 1 \/ ctxDone[i])
        /\ (Returned(i) /\ BeginOk(i)) =>
              (Issued(i, "rollback") = 1 <=> ~CommitSent(i))
        /\ Writes(i) >= 1 => calls[i].fn >= 1
        /\ Writes(i) <= MaxQueries

\* one invocation has committed and returned while the callback of another
\* is running on its own handle, which nothing has finished
C18_Witness ==
    \E i, j \in Invs :
        /\ Returned(i) /\ Issued(i, "commit") = 1
        /\ pc[j] = "fn" /\ Writes(j) >= 1 /\ ~txDone[j]
        /\ Issued(j, "commit") = 0 /\ Issued(j, "rollback") = 0

\* C19: the resource Adapter.WithTx(tx) returns has its user repository and
\* its order repository on the same handle tx, so the statements of
\* CreateUser and CreateOrder of one callback are in one transaction.
C19_CompositeSameHandle ==
    \A i \in Invs :
        Bound(i) =>
            /\ repo[i].repoUser.q = tx[i]
            /\ repo[i].repoOrder.q = repo[i].repoUser.q
            /\ Targets(repo[i]) \subseteq Handles

\* a callback has run a statement through the composite resource and it is
\* in the transaction both repositories target
C19_Witness ==
    \E i \in Invs :
        /\ Bound(i) /\ Writes(i) >= 1
        /\ repo[i].repoUser.q = i /\ repo[i].repoOrder.q = i

\* ------------------------------------------------------------- ordering
\* begin is the first operation on a handle and a commit or rollback the
\* last
LogInOrder(log) ==
    \A k \in DOMAIN log :
        /\ log[k] = "begin" <=> k = 1
        /\ log[k] \in {"commit", "rollback"} => k = Len(log)

\* InTx calls begin, bind, callback, finalize in this order
CallsInOrder(i) ==
    /\ calls[i].bind >= 1 => BeginOk(i)
    /\ calls[i].fn >= 1 => calls[i].bind >= 1
    /\ (calls[i].commit >= 1 \/ calls[i].rollback >= 1) =>
            calls[i].fn >= 1 /\ pc[i] \notin {"start", "begun", "fn"}
    /\ calls[i].rollback >= 1 => Returned(i)

\* no commit or rollback is on the handle before the callback has returned
NoFinalizeBeforeReturn(i) ==
    pc[i] \in {"start", "begun", "fn"} =>
        Issued(i, "commit") = 0 /\ Issued(i, "rollback") = 0

RollbackFailed(i) == calls[i].rollback = 1 /\ res[i].rollback \in DriverErrs

\* C21: when the callback fails with E, InTx returns the error that wraps E
\* under "trm callback" whatever the deferred Rollback returned: the error of
\* a failed rollback is dropped and is not in the value returned.
C21_RollbackErrorDropped ==
    \A i \in Invs :
        (Returned(i) /\ FnFailed(i)) =>
            /\ calls[i].rollback = 1
            /\ Wraps(ret[i], "trm callback", res[i].fn)
            /\ RollbackFailed(i) => ~Is(ret[i], res[i].rollback)

\* a callback failed, the rollback reached the driver and failed too, and
\* InTx returned the callback's error only
C21_Witness ==
    \E i \in Invs :
        /\ Returned(i) /\ FnFailed(i) /\ RollbackFailed(i)
        /\ Issued(i, "rollback") = 1
        /\ Wraps(ret[i], "trm callback", res[i].fn)

\* ------------------------------------------------------------ cancellation
\* the ctx of invocation i was cancelled while its transaction was open and
\* InTx has returned
CancelledWhileOpen(i) == Returned(i) /\ BeginOk(i) /\ ctxDone[i]

\* InTx returned an error of the callback or of Commit, nothing is committed
\* and the handle is finished by one rollback
FailedAndRolledBack(i) ==
    /\ ret[i] # Nil
    /\ FnFailed(i) \/ (FnOk(i) /\ CommitFailed(i))
    /\ FnFailed(i) => Wraps(ret[i], "trm callback", res[i].fn)
    /\ CommitFailed(i) => Wraps(ret[i], "commit tx", res[i].commit)
    /\ Issued(i, "commit") = 0 /\ visible[i] = 0
    /\ txDone[i] /\ Issued(i, "rollback") = 1

Panicked(i) == pc[i] = "panicked"

\* C23: when the callback panics after a successful begin, the deferred
\* Rollback still runs: by the time control has left InTx one rollback and no
\* commit has reached the handle, the handle is finished and nothing of the
\* transaction is visible.
C23_RollbackOnPanic ==
    \A i \in Invs :
        Panicked(i) =>
            /\ BeginOk(i) /\ calls[i].rollback = 1 /\ calls[i].commit = 0
            /\ Issued(i, "rollback") = 1 /\ Issued(i, "commit") = 0
            /\ txDone[i] /\ visible[i] = 0

\* a callback panicked after a statement; its transaction is rolled back,
\* while another invocation has committed
C23_Witness ==
    \E i, j \in Invs :
        /\ Panicked(i) /\ Writes(i) >= 1 /\ ~ctxDone[i]
        /\ txLog[i][Len(txLog[i])] = "rollback"
        /\ Returned(j) /\ CommitOk(j)

\* ------------------------------------------------- the deferred rollback
\* control has left InTx of invocation i, by a return or by a panic
Left(i) == Returned(i) \/ Panicked(i)

\* C24: the deferred Rollback is called on every path out of InTx after a
\* successful begin, and on none after a failed one.  Called after Commit
\* it sends no second finalization: when the Commit reached the driver the
\* Rollback returns ErrTxDone and sends nothing, a successful commit stays
\* visible, and the value InTx returns is the one the Commit decided.
C24_RollbackAfterCommitNoOp ==
    \A i \in Invs :
        /\ (Left(i) /\ BeginOk(i)) => calls[i].rollback = 1
        /\ (Left(i) /\ BeginFailed(i)) => calls[i].rollback = 0
        /\ (Returned(i) /\ calls[i].commit = 1) =>
              /\ Issued(i, "commit") + Issued(i, "rollback") = 1
              /\ ret[i] = IF res[i].commit = Nil THEN Nil
                          ELSE Errorf("commit tx", res[i].commit)
              /\ CommitSent(i) => /\ res[i].rollback = ErrTxDone
                                  /\ Issued(i, "rollback") = 0
                                  /\ txLog[i][Len(txLog[i])] = "commit"
              /\ CommitOk(i) => AllVisible(i)

\* an invocation has committed a statement with success and returned through
\* the deferred Rollback, which found the handle done
C24_Witness ==
    \E i \in Invs :
        /\ Returned(i) /\ CommitOk(i) /\ Writes(i) >= 1 /\ AllVisible(i)
        /\ calls[i].rollback = 1 /\ res[i].rollback = ErrTxDone
        /\ ret[i] = Nil

\* ------------------------------------------------------------ the executor
\* func New(db, wt): the executor, a connection and an unbound resource
New(db, r) == [db |-> db, wt |-> r]
\* the executor as it is now; InTx has no statement that assigns slf.db
Executor == New(DB, wt)

\* invocation i has not begun: nothing of it exists yet
Fresh(i) ==
    /\ tx[i] = NoTx /\ repo[i] = NoRepo /\ calls[i] = NoCalls /\ res[i] = NoRes
    /\ ~txOpen[i] /\ ~txDone[i] /\ txLog[i] = <<>> /\ visible[i] = 0

\* C25: whatever invocations have run and however they ended, the executor
\* holds the connection and the unbound resource it was built with, the
\* resource targets the plain connection, and an invocation that has not
\* begun finds everything as a first one does.
C25_ExecutorUnchanged ==
    /\ Executor = New(DB, NewAdapter(NewRepoUser(DB), NewRepoOrder(DB)))
    /\ Targets(Executor.wt) = {DB}
    /\ \A i \in Invs : pc[i] = "start" => Fresh(i)

\* one invocation has committed and returned and another runs its callback
\* on a handle of its own, bound from the unchanged resource
C25_Witness ==
    \E i, j \in Invs :
        /\ Returned(i) /\ CommitOk(i) /\ Writes(i) >= 1
        /\ pc[j] = "fn" /\ Writes(j) = 0 /\ Targets(repo[j]) = {j}
        /\ Targets(wt) = {DB}

\* ---------------------------------------------------------- Service.Create
\* what Service.Create returns once its InTx call has returned
ServiceCreate(i) == AfterInTx(ret[i])
\* the innermost error of a chain
Cause(e) == <<e[Len(e)]>>
\* r.CreateUser returned an error; r.CreateOrder returned an error
UserFailed(i) == calls[i].user = 1 /\ res[i].user # Nil
OrderFailed(i) == calls[i].order = 1 /\ res[i].order # Nil

\* C26: when in Service.Create over the executor and the Adapter the user
\* insert succeeds and CreateOrder fails with E, the transaction sees one
\* begin, then the user insert, then the statements of the order, the failing
\* one included when it reached the driver, then one rollback, and no commit;
\* Service.Create returns E wrapped by the callback, by InTx and by itself,
\* and errors.Is finds E and its cause in it.
C26_OrderFailureRolledBack ==
    \A i \in Invs :
        (Returned(i) /\ OrderFailed(i)) =>
            /\ calls[i].user = 1 /\ res[i].user = Nil
            /\ calls[i].begin = 1 /\ calls[i].commit = 0 /\ calls[i].rollback = 1
            /\ Issued(i, "begin") = 1 /\ Issued(i, "commit") = 0
            /\ Issued(i, "rollback") = 1
            /\ LogInOrder(txLog[i])
            /\ txLog[i][2] = "exec" /\ txLog[i][Len(txLog[i])] = "rollback"
            /\ Writes(i) <= 1 + MaxItems
            /\ Cause(res[i].order) \in DriverErrs => Writes(i) >= 2
            /\ visible[i] = 0
            /\ ServiceCreate(i) =
                  Errorf("create user & order",
                         Errorf("trm callback", Errorf("create order", res[i].order)))
            /\ Is(ServiceCreate(i), res[i].order)
            /\ Is(ServiceCreate(i), Cause(res[i].order))

\* the user was inserted, the insert of the first item failed at the driver,
\* the transaction was rolled back and Service.Create has its error
C26_Witness ==
    \E i \in Invs :
        /\ Returned(i) /\ OrderFailed(i) /\ Cause(res[i].order) \in DriverErrs
        /\ txLog[i] = <<"begin", "exec", "exec", "rollback">>
        /\ Says(ServiceCreate(i),
                "create user & order: trm callback: create order: create order for item 'item1': err")

\* C27: in Service.Create r.CreateUser is called before r.CreateOrder, and
\* r.CreateOrder only after r.CreateUser returned nil; when r.CreateUser
\* fails with E, r.CreateOrder is not called, no statement of the order is
\* sent, and errors.Is finds E in the error Service.Create returns.
C27_UserBeforeOrder ==
    \A i \in Invs :
        /\ calls[i].user <= 1 /\ calls[i].order <= 1
        /\ calls[i].order = 1 => (calls[i].user = 1 /\ res[i].user = Nil)
        /\ UserFailed(i) =>
              /\ calls[i].order = 0 /\ res[i].order = Nil
              /\ Writes(i) <= 1
              /\ pc[i] \in {"fnret", "returned"}
              /\ Returned(i) =>
                    /\ Is(ServiceCreate(i), res[i].user)
                    /\ Is(ServiceCreate(i), Cause(res[i].user))
                    /\ Issued(i, "commit") = 0 /\ Issued(i, "rollback") = 1

\* the insert of the user failed at the driver; Service.Create has returned
\* its error without a call of CreateOrder
C27_Witness ==
    \E i \in Invs :
        /\ Returned(i) /\ UserFailed(i) /\ Cause(res[i].user) \in DriverErrs
        /\ calls[i].order = 0
        /\ txLog[i] = <<"begin", "exec", "rollback">>
        /\ Says(ServiceCreate(i),
                "create user & order: trm callback: create user: create user: err")

\* ------------------------------------------------------------------- C28
Finalizes(h) == Issued(h, "commit") + Issued(h, "rollback")
Nested(j) == parent[j] # NoInv
\* the outer invocation was rolled back after the inner one committed
OuterRolledBack(i) ==
    /\ Returned(i) /\ FnFailed(i)
    /\ Writes(i) >= 1 /\ NoneVisible(i)
    /\ Issued(i, "rollback") = 1 /\ Issued(i, "commit") = 0

\* C28: a call of InTx made by a callback begins a handle of its own, never
\* the handle of the calling invocation.  Its Commit and its Rollback reach
\* only that handle: while the outer callback runs, no commit is on the
\* outer handle, and a rollback is there only when the outer context was
\* cancelled.  Once the outer invocation has returned after a successful
\* begin, exactly one finalization is on its handle.  What the inner call
\* committed stays visible, whatever the outer invocation does afterwards.
C28_NestedIndependent ==
    \A j \in Invs :
        Nested(j) =>
            LET i == parent[j]
            IN /\ tx[j] \in {NoTx, j}
               /\ (BeginOk(j) /\ BeginOk(i)) => tx[j] # tx[i]
               /\ (Issued(j, "commit") = 1) <=> CommitSent(j)
               /\ (Issued(j, "rollback") >= 1) => (BeginOk(j) /\ ~CommitOk(j))
               /\ pc[i] = "fn" =>
                     /\ Issued(i, "commit") = 0
                     /\ (Issued(i, "rollback") >= 1) => ctxDone[i]
               /\ (Returned(i) /\ BeginOk(i)) => Finalizes(i) = 1
               /\ (Returned(j) /\ BeginOk(j)) => Finalizes(j) = 1
               /\ (Returned(j) /\ CommitOk(j)) => AllVisible(j)
C28_Witness ==
    \E j \in Invs :
        /\ Nested(j) /\ Returned(j)
        /\ CommitOk(j) /\ Writes(j) >= 1 /\ AllVisible(j)
        /\ Finalizes(j) = 1
        /\ OuterRolledBack(parent[j])

====
